---- MODULE Spec2Model ----
(***************************************************************************)
(* Model of the Master class of node-pololu-maestro: the request queue,    *)
(* the response handler list, the response buffer, the command frames and  *)
(* the serial port events that drive them.                                 *)
(***************************************************************************)
EXTENDS Integers, Sequences, FiniteSets, TLC

\* ---------------------------------------------------------------- bounds
MaxOps == 3          \* number of API calls made in one behaviour
MaxRx == 3           \* number of inbound bytes delivered in one behaviour
MaxChunk == 2        \* largest inbound chunk delivered by one 'data' event
MaxTargets == 2      \* longest targets[] given to the frame encoder
MaxApiRx == 4        \* inbound bytes delivered while composed operations run

\* ------------------------------------------------------- inputs explored
Devices == {12}
Channels == {0}
Targets == {6000}
TargetLists == {<<4000, 6000>>}
RxBytes == {16, 23}
DeviceReply == <<16, 23>>
PositionRange == 0..65535
TryTargets == {5904}
TryTargetLists == {<<5904, 4112>>}
ChannelLists == {<<0, 1>>, <<0, 1, 2>>}
TargetRange == 0..16383
EdgeTargets == {0, 127, 128, 16383}

VARIABLES
  isOpen,            \* serialPort.isOpen
  requestQueue,      \* this.requestQueue
  responseHandlers,  \* this.responseHandlers
  responseBuffer,    \* this.responseBuffer (bytes not yet consumed)
  writes,            \* serialPort.write calls whose callback has not fired
  timers,            \* armed response timeouts (setTimeout handles)
  ops,               \* the promises returned by the API calls, in call order
  writeLog,          \* history: every request handed to serialPort.write
  enqueued,          \* history: every request pushed on requestQueue
  pushed,            \* history: every byte pushed on responseBuffer
  removed,           \* history: number of bytes taken off responseBuffer
  delivered,         \* history: every response frame given to a handler
  rxTotal,           \* history: number of inbound bytes delivered so far
  shifted,           \* history: every requestQueue.shift(), with its caller
  tasks,             \* the promises returned by trySetTarget,
                     \* trySetMultipleTargets and getMultiplePositions
  emitted,           \* the last event the Master emitted to its listeners
  deviceOut,         \* the device: reply bytes it has not sent yet, each
                     \* with the operation whose request it answers
  pushedFor,         \* history: for every byte pushed on responseBuffer,
                     \* the operation whose request it answers
  codecCall,         \* frame encoder: the call whose frame is built
  codecFrame,        \* frame encoder: the frame built for it
  codecResult        \* position decoder: the reply given and the outcome

vars == <<isOpen, requestQueue, responseHandlers, responseBuffer, writes,
          timers, ops, writeLog, enqueued, pushed, removed, delivered,
          rxTotal, shifted, tasks, emitted, deviceOut, pushedFor, codecCall, codecFrame, codecResult>>

engineVars == <<isOpen, requestQueue, responseHandlers, responseBuffer,
                writes, timers, ops, writeLog, enqueued, pushed, removed,
                delivered, rxTotal, shifted, tasks, emitted, deviceOut,
                pushedFor>>

codecVars == <<codecCall, codecFrame, codecResult>>

\* The engine state as one value, so that the methods compose sequentially.
State ==
  [isOpen |-> isOpen, requestQueue |-> requestQueue,
   responseHandlers |-> responseHandlers, responseBuffer |-> responseBuffer,
   writes |-> writes, timers |-> timers, ops |-> ops, writeLog |-> writeLog,
   enqueued |-> enqueued, pushed |-> pushed, removed |-> removed,
   delivered |-> delivered, rxTotal |-> rxTotal, shifted |-> shifted,
   tasks |-> tasks,
   emitted |-> emitted, deviceOut |-> deviceOut, pushedFor |-> pushedFor]

\* the variables take the values of s, which is computed once
Apply(s) ==
  \E next \in {s} :
    /\ isOpen' = next.isOpen
    /\ requestQueue' = next.requestQueue
    /\ responseHandlers' = next.responseHandlers
    /\ responseBuffer' = next.responseBuffer
    /\ writes' = next.writes
    /\ timers' = next.timers
    /\ ops' = next.ops
    /\ writeLog' = next.writeLog
    /\ enqueued' = next.enqueued
    /\ pushed' = next.pushed
    /\ removed' = next.removed
    /\ delivered' = next.delivered
    /\ rxTotal' = next.rxTotal
    /\ shifted' = next.shifted
    /\ tasks' = next.tasks
    /\ emitted' = next.emitted
    /\ deviceOut' = next.deviceOut
    /\ pushedFor' = next.pushedFor

\* ------------------------------------------------ integer and byte helpers
RECURSIVE BitAnd(_, _)
BitAnd(a, b) ==
  IF a = 0 \/ b = 0 THEN 0
  ELSE (a % 2) * (b % 2) + 2 * BitAnd(a \div 2, b \div 2)

RECURSIVE BitOr(_, _)
BitOr(a, b) ==
  IF a = 0 THEN b
  ELSE IF b = 0 THEN a
  ELSE (IF a % 2 = 1 \/ b % 2 = 1 THEN 1 ELSE 0) + 2 * BitOr(a \div 2, b \div 2)

ShiftRight(a, n) == a \div (2 ^ n)

\* the only left shift in the code is of a byte by 8: no 32-bit wrap can occur
ShiftLeft(a, n) == a * (2 ^ n)

\* storing a number in a Buffer keeps its low 8 bits
ToByte(x) == x % 256

\* ------------------------------------------------------------ array helpers
\* Array.prototype.indexOf for handlers (0-based, -1 when absent)
IndexOf(seq, id) ==
  IF \E i \in 1..Len(seq) : seq[i].id = id
  THEN (CHOOSE i \in 1..Len(seq) :
          /\ seq[i].id = id
          /\ \A j \in 1..(i - 1) : seq[j].id # id) - 1
  ELSE -1

\* Array.prototype.splice(i, 1): a negative i counts from the end
Splice1(seq, i) ==
  LET start == IF i < 0 THEN (IF Len(seq) + i < 0 THEN 0 ELSE Len(seq) + i)
               ELSE i
  IN IF start >= Len(seq) THEN seq
     ELSE SubSeq(seq, 1, start) \o SubSeq(seq, start + 2, Len(seq))

\* Array.prototype.shift
Shift(seq) == IF seq = <<>> THEN seq ELSE Tail(seq)

\* ------------------------------------------------------------------ frames
\* variant: the two target bytes in the opposite order
setTargetFrame_HighFirst(device, channel, target) ==
  LET targetLow == BitAnd(target, 127)
      targetHigh == BitAnd(ShiftRight(target, 7), 127)
  IN <<ToByte(170), ToByte(device), ToByte(4), ToByte(channel),
       ToByte(targetHigh), ToByte(targetLow)>>

setTargetFrame(device, channel, target) ==
  LET targetLow == BitAnd(target, 127)
      targetHigh == BitAnd(ShiftRight(target, 7), 127)
  IN <<ToByte(170), ToByte(device), ToByte(4), ToByte(channel),
       ToByte(targetLow), ToByte(targetHigh)>>

\* variant: the high byte taken from bit 8 up instead of bit 7 up
setMultipleTargetsFrame_Shift8(device, channel, targets) ==
  [frameI \in 1..(5 + Len(targets) * 2) |->
     IF frameI = 1 THEN ToByte(170)
     ELSE IF frameI = 2 THEN ToByte(device)
     ELSE IF frameI = 3 THEN ToByte(31)
     ELSE IF frameI = 4 THEN ToByte(Len(targets))
     ELSE IF frameI = 5 THEN ToByte(channel)
     ELSE LET i == (frameI - 6) \div 2
              target == targets[i + 1]
          IN IF (frameI - 6) % 2 = 0
             THEN ToByte(BitAnd(target, 127))
             ELSE ToByte(BitAnd(ShiftRight(target, 8), 127))]

setMultipleTargetsFrame(device, channel, targets) ==
  [frameI \in 1..(5 + Len(targets) * 2) |->
     IF frameI = 1 THEN ToByte(170)
     ELSE IF frameI = 2 THEN ToByte(device)
     ELSE IF frameI = 3 THEN ToByte(31)
     ELSE IF frameI = 4 THEN ToByte(Len(targets))
     ELSE IF frameI = 5 THEN ToByte(channel)
     ELSE LET i == (frameI - 6) \div 2
              target == targets[i + 1]
          IN IF (frameI - 6) % 2 = 0
             THEN ToByte(BitAnd(target, 127))
             ELSE ToByte(BitAnd(ShiftRight(target, 7), 127))]

getPositionFrame(device, channel) ==
  <<ToByte(170), ToByte(device), ToByte(16), ToByte(channel)>>

\* variant: the two response bytes read in the opposite order
decodePosition_HighFirst(responseFrame) ==
  BitAnd(ShiftLeft(responseFrame[1], 8) + responseFrame[2], 65535)

decodePosition(responseFrame) ==
  BitAnd(ShiftLeft(responseFrame[2], 8) + responseFrame[1], 65535)

\* ---------------------------------------------------------------- promises
\* a promise is settled by the first resolve or reject; later ones are ignored
resolve(s, op, value) ==
  [s EXCEPT !.ops[op] =
     IF @.state = "pending"
     THEN [@ EXCEPT !.state = "resolved", !.value = value,
                    !.settles = @ + 1]
     ELSE [@ EXCEPT !.settles = @ + 1]]

reject(s, op, error) ==
  [s EXCEPT !.ops[op] =
     IF @.state = "pending"
     THEN [@ EXCEPT !.state = "rejected", !.error = error,
                    !.settles = @ + 1]
     ELSE [@ EXCEPT !.settles = @ + 1]]

newPromise(s, kind, device, channel, targets) ==
  [s EXCEPT !.ops = Append(@, [kind |-> kind, device |-> device,
                               channel |-> channel, targets |-> targets,
                               state |-> "pending", error |-> "none",
                               value |-> -1, settles |-> 0])]

\* ----------------------------------------------------------- request queue
\* variant: dispatches the newest request instead of the oldest
writeNextRequest_Newest(s) ==
  IF Len(s.requestQueue) = 0 THEN s
  ELSE LET request == s.requestQueue[Len(s.requestQueue)]
       IN [s EXCEPT !.writes = Append(@, request),
                    !.writeLog = Append(@, request)]

writeNextRequest(s) ==
  IF Len(s.requestQueue) = 0 THEN s
  ELSE LET request == s.requestQueue[1]
       IN [s EXCEPT !.writes = Append(@, request),
                    !.writeLog = Append(@, request)]

\* this.requestQueue.shift() called for the request of operation op
shiftRequest(s, op) ==
  [s EXCEPT !.requestQueue = Shift(@),
            !.shifted = Append(@, [by |-> op,
                                   removed |->
                                     IF s.requestQueue = <<>> THEN 0
                                     ELSE s.requestQueue[1].callback.op])]

\* the continuation handed to the callback of the request of operation op
\* on a successful write
complete(s, op) ==
  LET s1 == shiftRequest(s, op)
  IN IF Len(s1.requestQueue) # 0 THEN writeNextRequest(s1) ELSE s1

\* getPosition's callback given to requestAndResponse
getPositionDone(s, op, err, responseFrame) ==
  IF err # "none" THEN reject(s, op, err)
  ELSE resolve(s, op, decodePosition(responseFrame))

\* responseHandler.callback
responseHandlerCallback(s, handler, err, responseFrame) ==
  getPositionDone(complete(s, handler.id), handler.id, err, responseFrame)

\* the callback requestAndForget gives to request
requestAndForgetCallback(s, cb, err) ==
  IF err # "none" THEN reject(s, cb.op, err)
  ELSE resolve(complete(s, cb.op), cb.op, 0)

\* variant: advances the queue as soon as the write succeeds
requestAndResponseCallback_CompletesOnWrite(s, cb, err) ==
  IF err # "none" THEN getPositionDone(s, cb.op, err, <<>>)
  ELSE LET responseHandler ==
             [id |-> cb.op, responseLength |-> cb.responseLength]
       IN complete([s EXCEPT !.timers = @ \cup {responseHandler},
                             !.responseHandlers = Append(@, responseHandler)],
                   cb.op)

\* the callback requestAndResponse gives to request
requestAndResponseCallback(s, cb, err) ==
  IF err # "none" THEN getPositionDone(s, cb.op, err, <<>>)
  ELSE LET responseHandler ==
             [id |-> cb.op, responseLength |-> cb.responseLength]
       IN [s EXCEPT !.timers = @ \cup {responseHandler},
                    !.responseHandlers = Append(@, responseHandler)]

\* request.callback(err, complete)
requestCallback(s, cb, err) ==
  IF cb.kind = "forget" THEN requestAndForgetCallback(s, cb, err)
  ELSE requestAndResponseCallback(s, cb, err)

\* variant: enqueues without looking at serialPort.isOpen
request_IgnoresClosed(s, requestFrame, cb) ==
  LET req == [frame |-> requestFrame, callback |-> cb]
      s1 == [s EXCEPT !.requestQueue = Append(@, req),
                      !.enqueued = Append(@, req)]
  IN IF Len(s1.requestQueue) = 1 THEN writeNextRequest(s1) ELSE s1

\* variant: dispatches on every call, not only when the queue was empty
request_AlwaysWrites(s, requestFrame, cb) ==
  IF ~s.isOpen THEN requestCallback(s, cb, "closed")
  ELSE LET req == [frame |-> requestFrame, callback |-> cb]
           s1 == [s EXCEPT !.requestQueue = Append(@, req),
                           !.enqueued = Append(@, req)]
       IN writeNextRequest(s1)

request(s, requestFrame, cb) ==
  IF ~s.isOpen THEN requestCallback(s, cb, "closed")
  ELSE LET req == [frame |-> requestFrame, callback |-> cb]
           s1 == [s EXCEPT !.requestQueue = Append(@, req),
                           !.enqueued = Append(@, req)]
       IN IF Len(s1.requestQueue) = 1 THEN writeNextRequest(s1) ELSE s1

requestAndForget(s, requestFrame, op) ==
  request(s, requestFrame,
          [kind |-> "forget", op |-> op, responseLength |-> 0])

requestAndResponse(s, requestFrame, responseLength, op) ==
  request(s, requestFrame,
          [kind |-> "response", op |-> op, responseLength |-> responseLength])

\* variant: a request whose write failed stays in the queue
writeCallback_KeepsFailed(s, req, err) ==
  LET s0 == [s EXCEPT !.writes = Shift(@)]
  IN requestCallback(s0, req.callback, err)

\* the callback serialPort.write is given in writeNextRequest
writeCallback(s, req, err) ==
  LET s0 == [s EXCEPT !.writes = Shift(@)]
  IN IF err # "none"
     THEN requestCallback(shiftRequest(s0, req.callback.op),
                          req.callback, err)
     ELSE requestCallback(s0, req.callback, "none")

\* variant: the timeout rejects the operation without advancing the queue
responseTimeout_NoComplete(s, responseHandler) ==
  LET i == IndexOf(s.responseHandlers, responseHandler.id)
      s1 == [s EXCEPT !.timers = @ \ {responseHandler},
                      !.responseHandlers = Splice1(@, i)]
  IN getPositionDone(s1, responseHandler.id, "timeout", <<>>)

\* variant: the timeout leaves its handler in responseHandlers
responseTimeout_KeepsHandler(s, responseHandler) ==
  LET s1 == [s EXCEPT !.timers = @ \ {responseHandler}]
  IN responseHandlerCallback(s1, responseHandler, "timeout", <<>>)

\* the function given to setTimeout in requestAndResponse
responseTimeout(s, responseHandler) ==
  LET i == IndexOf(s.responseHandlers, responseHandler.id)
      s1 == [s EXCEPT !.timers = @ \ {responseHandler},
                      !.responseHandlers = Splice1(@, i)]
  IN responseHandlerCallback(s1, responseHandler, "timeout", <<>>)

\* variant: waits for one byte more than the handler expects
onSerialPortData_OneMore(s, data) ==
  LET s0 == [s EXCEPT !.rxTotal = @ + Len(data)]
  IN IF Len(s0.responseHandlers) = 0 THEN s0
     ELSE
       LET s1 == [s0 EXCEPT !.responseBuffer = @ \o data,
                            !.pushed = @ \o data]
       IN IF Len(s1.responseBuffer) <= s1.responseHandlers[1].responseLength
          THEN s1
          ELSE
            LET responseHandler == s1.responseHandlers[1]
                n == responseHandler.responseLength
                responseFrame == SubSeq(s1.responseBuffer, 1, n)
                s2 == [s1 EXCEPT
                         !.responseHandlers = Shift(@),
                         !.timers = @ \ {responseHandler},
                         !.responseBuffer = SubSeq(@, n + 1, Len(@)),
                         !.removed = @ + n,
                         !.delivered =
                            Append(@, [id |-> responseHandler.id,
                                       responseLength |-> n,
                                       at |-> s1.removed,
                                       frame |-> responseFrame])]
                s3 == responseHandlerCallback(s2, responseHandler, "none",
                                              responseFrame)
            IN IF Len(s3.responseBuffer) # 0 /\ Len(s3.responseHandlers) = 0
               THEN [s3 EXCEPT !.removed = @ + Len(s3.responseBuffer),
                               !.responseBuffer = <<>>]
               ELSE s3

\* variant: a matched handler keeps its timeout armed
onSerialPortData_NoClearTimeout(s, data) ==
  LET s0 == [s EXCEPT !.rxTotal = @ + Len(data)]
  IN IF Len(s0.responseHandlers) = 0 THEN s0
     ELSE
       LET s1 == [s0 EXCEPT !.responseBuffer = @ \o data,
                            !.pushed = @ \o data]
       IN IF Len(s1.responseBuffer) < s1.responseHandlers[1].responseLength
          THEN s1
          ELSE
            LET responseHandler == s1.responseHandlers[1]
                n == responseHandler.responseLength
                responseFrame == SubSeq(s1.responseBuffer, 1, n)
                s2 == [s1 EXCEPT
                         !.responseHandlers = Shift(@),
                         !.responseBuffer = SubSeq(@, n + 1, Len(@)),
                         !.removed = @ + n,
                         !.delivered =
                            Append(@, [id |-> responseHandler.id,
                                       responseLength |-> n,
                                       at |-> s1.removed,
                                       frame |-> responseFrame])]
                s3 == responseHandlerCallback(s2, responseHandler, "none",
                                              responseFrame)
            IN IF Len(s3.responseBuffer) # 0 /\ Len(s3.responseHandlers) = 0
               THEN [s3 EXCEPT !.removed = @ + Len(s3.responseBuffer),
                               !.responseBuffer = <<>>]
               ELSE s3

onSerialPortData(s, data) ==
  LET s0 == [s EXCEPT !.rxTotal = @ + Len(data)]
  IN IF Len(s0.responseHandlers) = 0 THEN s0
     ELSE
       LET s1 == [s0 EXCEPT !.responseBuffer = @ \o data,
                            !.pushed = @ \o data]
       IN IF Len(s1.responseBuffer) < s1.responseHandlers[1].responseLength
          THEN s1
          ELSE
            LET responseHandler == s1.responseHandlers[1]
                n == responseHandler.responseLength
                responseFrame == SubSeq(s1.responseBuffer, 1, n)
                s2 == [s1 EXCEPT
                         !.responseHandlers = Shift(@),
                         !.timers = @ \ {responseHandler},
                         !.responseBuffer = SubSeq(@, n + 1, Len(@)),
                         !.removed = @ + n,
                         !.delivered =
                            Append(@, [id |-> responseHandler.id,
                                       responseLength |-> n,
                                       at |-> s1.removed,
                                       frame |-> responseFrame])]
                s3 == responseHandlerCallback(s2, responseHandler, "none",
                                              responseFrame)
            IN IF Len(s3.responseBuffer) # 0 /\ Len(s3.responseHandlers) = 0
               THEN [s3 EXCEPT !.removed = @ + Len(s3.responseBuffer),
                               !.responseBuffer = <<>>]
               ELSE s3

\* ------------------------------------------------------- transport events
\* EventEmitter.emit: the listeners are outside the Master
emit(s, event) == [s EXCEPT !.emitted = event]

onSerialPortError(s) == emit(s, "error")

onSerialPortOpen(s) == emit(s, "open")

\* variant: closing the port fails every operation in flight
onSerialPortClose_FailsPending(s) ==
  LET failed == {s.requestQueue[i].callback.op :
                   i \in 1..Len(s.requestQueue)}
  IN emit([s EXCEPT
             !.requestQueue = <<>>,
             !.responseHandlers = <<>>,
             !.responseBuffer = <<>>,
             !.timers = {},
             !.ops = [op \in 1..Len(s.ops) |->
                        IF op \in failed /\ s.ops[op].state = "pending"
                        THEN [s.ops[op] EXCEPT !.state = "rejected",
                                               !.error = "closed",
                                               !.settles = @ + 1]
                        ELSE s.ops[op]]],
          "close")

onSerialPortClose(s) == emit(s, "close")

\* ----------------------------------------------------------------- the API
setTarget(s, device, channel, target) ==
  LET s1 == newPromise(s, "setTarget", device, channel, <<target>>)
  IN requestAndForget(s1, setTargetFrame(device, channel, target),
                      Len(s1.ops))

setMultipleTargets(s, device, channel, targets) ==
  LET s1 == newPromise(s, "setMultipleTargets", device, channel, targets)
  IN requestAndForget(s1, setMultipleTargetsFrame(device, channel, targets),
                      Len(s1.ops))

getPosition(s, device, channel) ==
  LET s1 == newPromise(s, "getPosition", device, channel, <<>>)
  IN requestAndResponse(s1, getPositionFrame(device, channel), 2,
                        Len(s1.ops))

\* ------------------------------------------------- the composed operations
\* the value of a missing property and of a failed destructuring
Undefined == 0 - 1

NoInfo == [device |-> Undefined, channel |-> Undefined,
           expected |-> Undefined, actual |-> Undefined, cause |-> "none"]

newTask(s, kind, device, channel, targets, channels) ==
  [s EXCEPT !.tasks =
     Append(@, [kind |-> kind, device |-> device, channel |-> channel,
                targets |-> targets, channels |-> channels,
                phase |-> "set", awaits |-> 0, i |-> 0, result |-> <<>>,
                setOp |-> 0, gets |-> <<>>,
                state |-> "pending", error |-> "none", info |-> NoInfo])]

resolveTask(s, k) ==
  [s EXCEPT !.tasks[k] = [@ EXCEPT !.phase = "done", !.state = "resolved"]]

rejectTask(s, k, error, info) ==
  [s EXCEPT !.tasks[k] = [@ EXCEPT !.phase = "done", !.state = "rejected",
                                   !.error = error, !.info = info]]

\* result[channel] on the object built by getMultiplePositions
Lookup(result, channel) ==
  IF \E j \in 1..Len(result) : result[j].channel = channel
  THEN result[CHOOSE j \in 1..Len(result) :
                /\ result[j].channel = channel
                /\ \A l \in (j + 1)..Len(result) :
                     result[l].channel # channel].position
  ELSE Undefined

\* ({channel, target}) => ... applied to an element of targets[], a number
Destructure(element) == [channel |-> Undefined, target |-> Undefined]

\* getMultiplePositions: the loop body reaching `await this.getPosition`
awaitGetPosition(s, k, i) ==
  LET t == s.tasks[k]
      s1 == getPosition(s, t.device, t.channels[i])
  IN [s1 EXCEPT !.tasks[k] =
        [@ EXCEPT !.phase = "get", !.i = i, !.awaits = Len(s1.ops),
                  !.gets = Append(@, Len(s1.ops))]]

\* the callback of trySetMultipleTargets' last then()
compareMultipleTargets(s, k) ==
  LET t == s.tasks[k]
      bad == {j \in 1..Len(t.targets) :
                Lookup(t.result, Destructure(t.targets[j]).channel)
                  # Destructure(t.targets[j]).target}
  IN IF bad = {} THEN resolveTask(s, k)
     ELSE LET j == CHOOSE j \in bad : \A l \in bad : j <= l
              d == Destructure(t.targets[j])
          IN rejectTask(s, k, "mismatch",
                        [NoInfo EXCEPT !.device = t.device,
                                       !.channel = d.channel,
                                       !.expected = d.target,
                                       !.actual = Lookup(t.result, d.channel)])

\* getMultiplePositions: resolve(result), and what the caller chains to it
getMultiplePositionsResolved(s, k) ==
  IF s.tasks[k].kind = "trySetMultipleTargets"
  THEN compareMultipleTargets(s, k)
  ELSE resolveTask(s, k)

\* getMultiplePositions: the for loop, entered at channel number i
getMultiplePositionsFrom(s, k, i) ==
  IF i > Len(s.tasks[k].channels) THEN getMultiplePositionsResolved(s, k)
  ELSE awaitGetPosition(s, k, i)

\* variant: a failed read does not stop the loop
getMultiplePositionsResume_KeepsGoing(s, k) ==
  LET t == s.tasks[k]
      o == s.ops[t.awaits]
  IN getMultiplePositionsFrom(
       [s EXCEPT !.tasks[k].result =
          Append(@, [channel |-> t.channels[t.i], position |-> o.value])],
       k, t.i + 1)

\* getMultiplePositions: resuming after `await this.getPosition` settled
getMultiplePositionsResume(s, k) ==
  LET t == s.tasks[k]
      o == s.ops[t.awaits]
  IN IF o.state = "rejected"
     THEN rejectTask(s, k, "getfailed",
                     [NoInfo EXCEPT !.device = t.device,
                                    !.channel = t.channels[t.i],
                                    !.cause = o.error])
     ELSE getMultiplePositionsFrom(
            [s EXCEPT !.tasks[k].result =
               Append(@, [channel |-> t.channels[t.i],
                          position |-> o.value])],
            k, t.i + 1)

\* variant: the position read back is not compared with the target
trySetTargetThen_NoCompare(s, k) ==
  LET t == s.tasks[k]
      o == s.ops[t.awaits]
  IN IF o.state = "rejected" THEN rejectTask(s, k, o.error, NoInfo)
     ELSE IF t.phase = "set"
     THEN LET s1 == getPosition(s, t.device, t.channel)
          IN [s1 EXCEPT !.tasks[k] =
                [@ EXCEPT !.phase = "get", !.awaits = Len(s1.ops),
                          !.gets = Append(@, Len(s1.ops))]]
     ELSE resolveTask(s, k)

\* trySetTarget: the two then() callbacks
trySetTargetThen(s, k) ==
  LET t == s.tasks[k]
      o == s.ops[t.awaits]
  IN IF o.state = "rejected" THEN rejectTask(s, k, o.error, NoInfo)
     ELSE IF t.phase = "set"
     THEN LET s1 == getPosition(s, t.device, t.channel)
          IN [s1 EXCEPT !.tasks[k] =
                [@ EXCEPT !.phase = "get", !.awaits = Len(s1.ops),
                          !.gets = Append(@, Len(s1.ops))]]
     ELSE IF o.value # t.targets[1]
     THEN rejectTask(s, k, "mismatch",
                     [NoInfo EXCEPT !.device = t.device,
                                    !.channel = t.channel,
                                    !.expected = t.targets[1],
                                    !.actual = o.value])
     ELSE resolveTask(s, k)

\* trySetMultipleTargets: the then() callbacks
trySetMultipleTargetsThen(s, k) ==
  LET t == s.tasks[k]
      o == s.ops[t.awaits]
  IN IF t.phase = "set"
     THEN IF o.state = "rejected" THEN rejectTask(s, k, o.error, NoInfo)
          ELSE getMultiplePositionsFrom(s, k, 1)
     ELSE getMultiplePositionsResume(s, k)

\* one promise reaction of task k
taskThen(s, k) ==
  IF s.tasks[k].kind = "trySetTarget" THEN trySetTargetThen(s, k)
  ELSE IF s.tasks[k].kind = "trySetMultipleTargets"
  THEN trySetMultipleTargetsThen(s, k)
  ELSE getMultiplePositionsResume(s, k)

Runnable(s) ==
  {k \in 1..Len(s.tasks) :
     /\ s.tasks[k].phase # "done"
     /\ s.ops[s.tasks[k].awaits].state # "pending"}

\* the promise reactions run to completion before the next event is handled
RECURSIVE runMicrotasks(_)
runMicrotasks(s) ==
  IF Runnable(s) = {} THEN s
  ELSE runMicrotasks(taskThen(s, CHOOSE k \in Runnable(s) :
                                   \A l \in Runnable(s) : k <= l))

trySetTarget(s, device, channel, target) ==
  LET s1 == newTask(s, "trySetTarget", device, channel, <<target>>, <<>>)
      s2 == setTarget(s1, device, channel, target)
  IN [s2 EXCEPT !.tasks[Len(s2.tasks)].awaits = Len(s2.ops),
                !.tasks[Len(s2.tasks)].setOp = Len(s2.ops)]

trySetMultipleTargets(s, device, channel, targets) ==
  LET channels == [i \in 1..Len(targets) |-> channel + (i - 1)]
      s1 == newTask(s, "trySetMultipleTargets", device, channel, targets,
                    channels)
      s2 == setMultipleTargets(s1, device, channel, targets)
  IN [s2 EXCEPT !.tasks[Len(s2.tasks)].awaits = Len(s2.ops),
                !.tasks[Len(s2.tasks)].setOp = Len(s2.ops)]

getMultiplePositions(s, device, channels) ==
  LET s1 == newTask(s, "getMultiplePositions", device, Undefined, <<>>,
                    channels)
  IN getMultiplePositionsFrom(s1, Len(s1.tasks), 1)

\* ------------------------------------------------------------------ actions
\* getPosition calls a pending composed operation may still make
Remaining(t) ==
  IF t.phase = "done" THEN 0
  ELSE IF t.kind = "trySetTarget" THEN (IF t.phase = "set" THEN 1 ELSE 0)
  ELSE Len(t.channels) - t.i

RECURSIVE SumRemaining(_)
SumRemaining(ts) ==
  IF ts = <<>> THEN 0 ELSE Remaining(Head(ts)) + SumRemaining(Tail(ts))

\* n more primitive calls fit in the explored number of calls
Room(n) == Len(ops) + SumRemaining(tasks) + n <= MaxOps

Init ==
  /\ isOpen \in BOOLEAN
  /\ requestQueue = <<>>
  /\ responseHandlers = <<>>
  /\ responseBuffer = <<>>
  /\ writes = <<>>
  /\ timers = {}
  /\ ops = <<>>
  /\ writeLog = <<>>
  /\ enqueued = <<>>
  /\ pushed = <<>>
  /\ removed = 0
  /\ delivered = <<>>
  /\ rxTotal = 0
  /\ shifted = <<>>
  /\ tasks = <<>>
  /\ emitted = "none"
  /\ deviceOut = <<>>
  /\ pushedFor = <<>>
  /\ codecCall = [op |-> "none", device |-> 0, channel |-> 0,
                  targets |-> <<>>]
  /\ codecFrame = <<>>
  /\ codecResult = [position |-> 0, bytes |-> <<>>, state |-> "none",
                    value |-> 0]

CallSetTarget ==
  /\ Room(1)
  /\ \E device \in Devices, channel \in Channels, target \in Targets :
       Apply(runMicrotasks(setTarget(State, device, channel, target)))
  /\ UNCHANGED codecVars

CallSetMultipleTargets ==
  /\ Room(1)
  /\ \E device \in Devices, channel \in Channels, targets \in TargetLists :
       Apply(runMicrotasks(setMultipleTargets(State, device, channel,
                                              targets)))
  /\ UNCHANGED codecVars

CallGetPosition ==
  /\ Room(1)
  /\ \E device \in Devices, channel \in Channels :
       Apply(runMicrotasks(getPosition(State, device, channel)))
  /\ UNCHANGED codecVars

WriteSucceeds ==
  /\ writes # <<>>
  /\ Apply(runMicrotasks(writeCallback(State, writes[1], "none")))
  /\ UNCHANGED codecVars

WriteFails ==
  /\ writes # <<>>
  /\ Apply(runMicrotasks(writeCallback(State, writes[1], "write")))
  /\ UNCHANGED codecVars

ResponseTimeout ==
  /\ \E responseHandler \in timers :
       Apply(runMicrotasks(responseTimeout(State, responseHandler)))
  /\ UNCHANGED codecVars

SerialPortData ==
  /\ \E n \in 1..MaxChunk :
       /\ rxTotal + n <= MaxRx
       /\ \E data \in [1..n -> RxBytes] :
            Apply(runMicrotasks(onSerialPortData(State, data)))
  /\ UNCHANGED codecVars

\* the port opens and the Master handles its 'open' event
SerialPortOpen ==
  /\ ~isOpen
  /\ Apply(runMicrotasks(onSerialPortOpen([State EXCEPT !.isOpen = TRUE])))
  /\ UNCHANGED codecVars

\* the port closes and the Master handles its 'close' event
SerialPortClose ==
  /\ isOpen
  /\ Apply(runMicrotasks(onSerialPortClose([State EXCEPT !.isOpen = FALSE])))
  /\ UNCHANGED codecVars

\* the port reports an error and the Master handles its 'error' event
SerialPortError ==
  /\ Apply(runMicrotasks(onSerialPortError(State)))
  /\ UNCHANGED codecVars

Next ==
  \/ CallSetTarget
  \/ CallSetMultipleTargets
  \/ CallGetPosition
  \/ WriteSucceeds
  \/ WriteFails
  \/ ResponseTimeout
  \/ SerialPortData
  \/ SerialPortOpen
  \/ SerialPortClose

Spec == Init /\ [][Next]_vars

\* The request engine together with every transport event.
EventNext ==
  \/ CallSetTarget
  \/ CallGetPosition
  \/ WriteSucceeds
  \/ WriteFails
  \/ ResponseTimeout
  \/ SerialPortData
  \/ SerialPortOpen
  \/ SerialPortClose
  \/ SerialPortError

EventSpec == Init /\ [][EventNext]_vars

\* The engine talking to a device that answers every getPosition frame it
\* receives with two bytes, at any later time.
DeviceWriteSucceeds ==
  /\ writes # <<>>
  /\ LET req == writes[1]
         reply == IF req.callback.kind = "response"
                  THEN [i \in 1..Len(DeviceReply) |->
                          [byte |-> DeviceReply[i], for |-> req.callback.op]]
                  ELSE <<>>
         s1 == runMicrotasks(writeCallback(State, req, "none"))
     IN Apply([s1 EXCEPT !.deviceOut = @ \o reply])
  /\ UNCHANGED codecVars

DeviceData ==
  /\ \E n \in 1..MaxChunk :
       /\ n <= Len(deviceOut)
       /\ LET data == [i \in 1..n |-> deviceOut[i].byte]
              tags == [i \in 1..n |-> deviceOut[i].for]
              s1 == runMicrotasks(onSerialPortData(State, data))
          IN Apply([s1 EXCEPT
                      !.deviceOut = SubSeq(@, n + 1, Len(@)),
                      !.pushedFor = IF Len(s1.pushed) > Len(pushed)
                                    THEN @ \o tags ELSE @])
  /\ UNCHANGED codecVars

DeviceNext ==
  \/ CallGetPosition
  \/ CallSetTarget
  \/ DeviceWriteSucceeds
  \/ WriteFails
  \/ ResponseTimeout
  \/ DeviceData

DeviceSpec == Init /\ [][DeviceNext]_vars

\* The composed operations, interleaved with the primitive ones.
CallTrySetTarget ==
  /\ Room(2)
  /\ \E device \in Devices, channel \in Channels, target \in TryTargets :
       Apply(runMicrotasks(trySetTarget(State, device, channel, target)))
  /\ UNCHANGED codecVars

CallTrySetMultipleTargets ==
  /\ \E device \in Devices, channel \in Channels,
        targets \in TryTargetLists :
       /\ Room(1 + Len(targets))
       /\ Apply(runMicrotasks(trySetMultipleTargets(State, device, channel,
                                                    targets)))
  /\ UNCHANGED codecVars

CallGetMultiplePositions ==
  /\ \E device \in Devices, channels \in ChannelLists :
       /\ Room(Len(channels))
       /\ Apply(runMicrotasks(getMultiplePositions(State, device, channels)))
  /\ UNCHANGED codecVars

\* inbound data, enough of it for two replies
ApiSerialPortData ==
  /\ \E n \in 1..MaxChunk :
       /\ rxTotal + n <= MaxApiRx
       /\ \E data \in [1..n -> RxBytes] :
            Apply(runMicrotasks(onSerialPortData(State, data)))
  /\ UNCHANGED codecVars

ApiNext ==
  \/ CallTrySetTarget
  \/ CallTrySetMultipleTargets
  \/ CallGetMultiplePositions
  \/ CallSetTarget
  \/ WriteSucceeds
  \/ WriteFails
  \/ ResponseTimeout
  \/ ApiSerialPortData
  \/ SerialPortOpen
  \/ SerialPortClose

ApiSpec == Init /\ [][ApiNext]_vars

\* The frame encoders alone, over the whole 14-bit target range.
TargetListsOfLen(n) ==
  IF n = 0 THEN {<<>>}
  ELSE {[i \in 1..n |-> IF i = 1 THEN t ELSE e[i - 1]] :
          t \in TargetRange, e \in [1..(n - 1) -> EdgeTargets]}

CodecSetTarget ==
  /\ codecCall.op = "none"
  /\ \E device \in Devices, channel \in Channels, target \in TargetRange :
       /\ codecCall' = [op |-> "setTarget", device |-> device,
                        channel |-> channel, targets |-> <<target>>]
       /\ codecFrame' = setTargetFrame(device, channel, target)
  /\ UNCHANGED <<engineVars, codecResult>>

CodecSetMultipleTargets ==
  /\ codecCall.op = "none"
  /\ \E device \in Devices, channel \in Channels, n \in 0..MaxTargets :
       \E targets \in TargetListsOfLen(n) :
         /\ codecCall' = [op |-> "setMultipleTargets", device |-> device,
                          channel |-> channel, targets |-> targets]
         /\ codecFrame' = setMultipleTargetsFrame(device, channel, targets)
  /\ UNCHANGED <<engineVars, codecResult>>

CodecNext == CodecSetTarget \/ CodecSetMultipleTargets

CodecSpec == Init /\ [][CodecNext]_vars

\* The position decoder alone, over the whole 16-bit position range.
\* getPosition on an idle open port whose write succeeds and whose two reply
\* bytes then arrive in one chunk
CodecGetPosition ==
  /\ codecCall.op = "none"
  /\ \E device \in Devices, channel \in Channels, p \in PositionRange :
       LET lowByte == p % 256
           highByte == p \div 256
           s1 == getPosition([State EXCEPT !.isOpen = TRUE], device, channel)
           s2 == writeCallback(s1, s1.writes[1], "none")
           s3 == onSerialPortData(s2, <<lowByte, highByte>>)
       IN /\ codecCall' = [op |-> "getPosition", device |-> device,
                           channel |-> channel, targets |-> <<>>]
          /\ codecFrame' = s1.writeLog[1].frame
          /\ codecResult' = [position |-> p, bytes |-> <<lowByte, highByte>>,
                             state |-> s3.ops[1].state,
                             value |-> s3.ops[1].value]
  /\ UNCHANGED engineVars

DecodeNext == CodecGetPosition

DecodeSpec == Init /\ [][DecodeNext]_vars

\* an armed timer fires unless clearTimeout disarms it first
LiveSpec == Init /\ [][Next]_vars /\ WF_vars(ResponseTimeout)

\* -------------------------------------------------------------- properties
IsPrefix(a, b) == Len(a) <= Len(b) /\ a = SubSeq(b, 1, Len(a))

\* C1: at most one serialPort.write is outstanding at any time, and the
\* outstanding write is the one issued for the request at the head of
\* requestQueue.
C1_OneWriteOfHead ==
  /\ Len(writes) <= 1
  /\ writes # <<>> =>
       /\ requestQueue # <<>>
       /\ writes[1] = requestQueue[1]

C1_Witness ==
  /\ Len(writes) = 1
  /\ Len(requestQueue) >= 2
  /\ Len(writeLog) >= 2

\* C2: requests are handed to serialPort.write in the order they were
\* enqueued, each at most once: the log of writes is always a prefix of the
\* log of enqueued requests.
C2_WritesInIssueOrder == IsPrefix(writeLog, enqueued)

C2_Witness ==
  /\ Len(writeLog) = 3
  /\ Len(requestQueue) = 1
  /\ writeLog[1].callback.kind = "response"

Last(seq) == seq[Len(seq)]

InSeq(x, seq) == \E i \in 1..Len(seq) : seq[i] = x

Awaiting(op) == \E i \in 1..Len(responseHandlers) : responseHandlers[i].id = op

TimedOut(o) == o.state = "rejected" /\ o.error = "timeout"

\* C3: once the frame of a response-expecting request has been written, no
\* further frame is written before that request is settled, and while its
\* handler is registered the queue head moves only in the step that matches
\* its response or fires its timeout.
C3_ProtocolSerialization ==
  [][/\ (writeLog' # writeLog /\ writeLog # <<>>
          /\ Last(writeLog).callback.kind = "response")
        => ops'[Last(writeLog).callback.op].state # "pending"
     /\ \A i \in 1..Len(responseHandlers) :
          ~IsPrefix(requestQueue, requestQueue')
            => LET o == ops'[responseHandlers[i].id]
               IN o.state = "resolved" \/ TimedOut(o)]_vars

C3_Witness ==
  /\ Len(writeLog) >= 2
  /\ writeLog[1].callback.kind = "response"
  /\ ops[writeLog[1].callback.op].state = "resolved"
  /\ Len(enqueued) >= 2
  /\ writes # <<>>

\* C4: a getPosition whose write succeeded is eventually settled (by its
\* response or, failing that, by the response timeout); the step in which a
\* timeout rejects it removes its handler and removes it from the head of
\* the queue, and leaves the queue either writing the next request or empty
\* and idle, so that a request issued afterwards is written at once.
C4_TimeoutAdvancesQueue ==
  /\ (responseHandlers # <<>>) ~> (responseHandlers = <<>>)
  /\ [](\A i \in 1..Len(writeLog) :
          LET r == writeLog[i]
              o == ops[r.callback.op]
          IN (r.callback.kind = "response" /\ ~InSeq(r, writes))
               => \/ Awaiting(r.callback.op) /\ o.state = "pending"
                  \/ o.state = "resolved"
                  \/ o.state = "rejected" /\ o.error \in {"timeout", "write"})
  /\ [][\A op \in 1..Len(ops) :
          (ops[op].state = "pending" /\ TimedOut(ops'[op]))
            => /\ Awaiting(op)
               /\ responseHandlers' = <<>>
               /\ requestQueue[1].callback.op = op
               /\ requestQueue' = Tail(requestQueue)
               /\ IF requestQueue' # <<>>
                  THEN /\ writes' = <<requestQueue'[1]>>
                       /\ writeLog' = Append(writeLog, requestQueue'[1])
                  ELSE writes' = <<>>]_vars
  /\ [][(Len(ops') > Len(ops) /\ isOpen /\ requestQueue = <<>>)
          => /\ Len(requestQueue') = 1
             /\ writes' = <<requestQueue'[1]>>
             /\ writeLog' = Append(writeLog, requestQueue'[1])]_vars

C4_Witness ==
  /\ Len(ops) >= 3
  /\ TimedOut(ops[1])
  /\ Len(writeLog) >= 3
  /\ writeLog[2].callback.kind = "forget"
  /\ ops[3].kind = "setTarget"
  /\ writeLog[3].callback.op = 3

\* C5: when the write of the head request fails, the request is dequeued,
\* its operation rejects with the write error, and the request queued behind
\* it (if any) is written to the transport.
C5_WriteFailureAdvances ==
  [][\A op \in 1..Len(ops) :
       (ops[op].state = "pending" /\ ops'[op].state = "rejected"
        /\ ops'[op].error = "write")
         => /\ requestQueue[1].callback.op = op
            /\ requestQueue' = Tail(requestQueue)
            /\ requestQueue' # <<>> =>
                 /\ writes' = <<requestQueue'[1]>>
                 /\ writeLog' = Append(writeLog, requestQueue'[1])]_vars

\* C6: an operation requested while the port is not open is rejected in the
\* same step with the port-closed error; the queue, the handlers, the buffer,
\* the timers, the outstanding write and every other operation are untouched.
C6_ClosedRejectsUntouched ==
  [][(Len(ops') = Len(ops) + 1 /\ ~isOpen)
       => /\ ops'[Len(ops')].state = "rejected"
          /\ ops'[Len(ops')].error = "closed"
          /\ ops'[Len(ops')].settles = 1
          /\ \A op \in 1..Len(ops) : ops'[op] = ops[op]
          /\ UNCHANGED <<requestQueue, responseHandlers, responseBuffer,
                         writes, timers, writeLog, enqueued>>]_vars

C6_Witness ==
  /\ Len(ops) = 3
  /\ ops[3].state = "rejected"
  /\ ops[3].error = "closed"
  /\ Len(requestQueue) = 2
  /\ responseHandlers # <<>>

\* C7: every inbound byte delivered after the frame of a response-expecting
\* request was handed to the transport, and before that request left the
\* queue, finds the request's handler registered.
C7_HandlerRegisteredBeforeData ==
  [][(/\ rxTotal' # rxTotal
      /\ requestQueue # <<>>
      /\ requestQueue[1].callback.kind = "response"
      /\ InSeq(requestQueue[1], writeLog))
       => Awaiting(requestQueue[1].callback.op)]_vars

\* C8: the buffer is always the not yet consumed tail of the bytes pushed, in
\* arrival order; an outstanding handler never waits with enough bytes
\* buffered; every delivered frame is exactly responseLength bytes, the
\* first ones buffered at that moment, taken off the buffer and never given
\* to a later handler.
C8_FramesInArrivalOrder ==
  /\ removed <= Len(pushed)
  /\ responseBuffer = SubSeq(pushed, removed + 1, Len(pushed))
  /\ responseHandlers # <<>> =>
       Len(responseBuffer) < responseHandlers[1].responseLength
  /\ \A i \in 1..Len(delivered) :
       LET d == delivered[i]
       IN /\ Len(d.frame) = d.responseLength
          /\ d.frame = SubSeq(pushed, d.at + 1, d.at + d.responseLength)
          /\ d.at + d.responseLength <= removed
          /\ i > 1 => d.at >= delivered[i - 1].at
                               + delivered[i - 1].responseLength

C8_Witness ==
  /\ Len(delivered) = 1
  /\ delivered[1].frame = <<16, 23>>
  /\ responseHandlers # <<>>
  /\ responseBuffer = <<23>>

\* C9 as stated: the request of setTarget(device 12, channel 0, target 6000)
\* is handed to the transport with the frame AA 0C 04 00 60 2E.
C9_SetTargetFrame_AsStated ==
  \A i \in 1..Len(writeLog) :
    LET r == writeLog[i]
        o == ops[r.callback.op]
    IN (o.kind = "setTarget" /\ o.device = 12 /\ o.channel = 0
        /\ o.targets = <<6000>>)
         => r.frame = <<170, 12, 4, 0, 96, 46>>

\* C9 as amended: the request of setTarget(device 12, channel 0, target 6000)
\* is handed to the transport with the frame AA 0C 04 00 70 2E, whose fifth
\* byte is 6000 mod 128 = 112 and whose sixth byte is (6000 div 128) mod 128
\* = 46.
C9_SetTargetFrame ==
  \A i \in 1..Len(writeLog) :
    LET r == writeLog[i]
        o == ops[r.callback.op]
    IN (o.kind = "setTarget" /\ o.device = 12 /\ o.channel = 0
        /\ o.targets = <<6000>>)
         => /\ r.frame = <<170, 12, 4, 0, 112, 46>>
            /\ r.frame[5] = 6000 % 128
            /\ r.frame[6] = (6000 \div 128) % 128

C9_Witness ==
  \E i \in 1..Len(writeLog) :
    /\ ops[writeLog[i].callback.op].kind = "setTarget"
    /\ ops[writeLog[i].callback.op].targets = <<6000>>
    /\ ops[writeLog[i].callback.op].device = 12
    /\ ops[writeLog[i].callback.op].channel = 0

Recombine(low, high) == BitOr(ShiftLeft(BitAnd(high, 127), 7), BitAnd(low, 127))

\* C10: for every target in 0..16383 the two target bytes of setTarget and of
\* setMultipleTargets are below 128 and recombine to the target, and the
\* setMultipleTargets frame is AA, device, 1F, count, start channel and one
\* byte pair per target.
C10_TargetBytes ==
  /\ codecCall.op = "setTarget" =>
       /\ Len(codecFrame) = 6
       /\ codecFrame[5] < 128
       /\ codecFrame[6] < 128
       /\ Recombine(codecFrame[5], codecFrame[6]) = codecCall.targets[1]
  /\ codecCall.op = "setMultipleTargets" =>
       /\ Len(codecFrame) = 5 + 2 * Len(codecCall.targets)
       /\ SubSeq(codecFrame, 1, 5) =
            <<170, codecCall.device, 31, Len(codecCall.targets),
              codecCall.channel>>
       /\ \A i \in 0..(Len(codecCall.targets) - 1) :
            /\ codecFrame[6 + 2 * i] < 128
            /\ codecFrame[7 + 2 * i] < 128
            /\ Recombine(codecFrame[6 + 2 * i], codecFrame[7 + 2 * i])
                 = codecCall.targets[i + 1]

C10_Witness ==
  /\ codecCall.op = "setMultipleTargets"
  /\ codecCall.targets = <<16383, 128>>
  /\ codecFrame = <<170, 12, 31, 2, 0, 127, 127, 0, 1>>

\* C11: for every position 0..65535 sent as low byte then high byte,
\* getPosition writes AA, device, 10, channel and resolves with exactly that
\* position; the bytes 10 17 resolve to 5904.
C11_PositionDecoded ==
  codecCall.op = "getPosition" =>
    /\ codecFrame = <<170, codecCall.device, 16, codecCall.channel>>
    /\ codecResult.state = "resolved"
    /\ codecResult.value = codecResult.position
    /\ codecResult.bytes = <<16, 23>> => codecResult.value = 5904

C11_Witness ==
  /\ codecCall.op = "getPosition"
  /\ codecResult.bytes = <<16, 23>>
  /\ codecResult.value = 5904

\* position of the request of operation op in the log of writes, 0 if none
WrittenAt(op) ==
  IF \E i \in 1..Len(writeLog) : writeLog[i].callback.op = op
  THEN CHOOSE i \in 1..Len(writeLog) : writeLog[i].callback.op = op
  ELSE 0

\* C12: trySetTarget issues setTarget and, only once it has resolved,
\* getPosition for the same device and channel, whose frame is written after
\* the setTarget frame; it is rejected with the mismatch error naming
\* device, channel, expected and actual exactly when the position read back
\* differs from the target, resolved exactly when it is equal, and rejected
\* with setTarget's error, without any getPosition, when setTarget fails.
C12_TrySetTarget ==
  \A k \in 1..Len(tasks) :
    LET t == tasks[k]
        set == ops[t.setOp]
    IN t.kind = "trySetTarget" =>
         /\ set.kind = "setTarget" /\ set.device = t.device
         /\ set.channel = t.channel /\ set.targets = t.targets
         /\ Len(t.gets) <= 1
         /\ set.state = "pending" => t.state = "pending" /\ t.gets = <<>>
         /\ set.state = "rejected" =>
              /\ t.gets = <<>>
              /\ t.state = "rejected" /\ t.error = set.error
         /\ set.state = "resolved" => Len(t.gets) = 1
         /\ Len(t.gets) = 1 =>
              LET get == ops[t.gets[1]]
              IN /\ get.kind = "getPosition" /\ get.device = t.device
                 /\ get.channel = t.channel
                 /\ set.state = "resolved"
                 /\ WrittenAt(t.setOp) > 0
                 /\ WrittenAt(t.gets[1]) > 0
                      => WrittenAt(t.setOp) < WrittenAt(t.gets[1])
                 /\ (t.state = "rejected" /\ t.error = "mismatch")
                      <=> (get.state = "resolved"
                           /\ get.value # t.targets[1])
                 /\ (t.state = "rejected" /\ t.error = "mismatch")
                      => t.info = [NoInfo EXCEPT !.device = t.device,
                                                 !.channel = t.channel,
                                                 !.expected = t.targets[1],
                                                 !.actual = get.value]
                 /\ t.state = "resolved"
                      <=> (get.state = "resolved"
                           /\ get.value = t.targets[1])

C12_Witness ==
  \E k \in 1..Len(tasks) :
    /\ tasks[k].kind = "trySetTarget"
    /\ tasks[k].state = "rejected"
    /\ tasks[k].error = "mismatch"
    /\ tasks[k].info.expected = 5904
    /\ tasks[k].info.actual = 4112

\* C13: trySetMultipleTargets with numeric targets resolves only if the
\* position read back for every channel channel+i equals targets[i].
C13_TrySetMultipleTargetsVerifies ==
  \A k \in 1..Len(tasks) :
    LET t == tasks[k]
    IN (t.kind = "trySetMultipleTargets" /\ t.state = "resolved") =>
         \A i \in 1..Len(t.targets) :
           Lookup(t.result, t.channel + (i - 1)) = t.targets[i]

\* C14: getMultiplePositions reads the channels one after another in list
\* order, issuing a getPosition only after the previous one resolved; a
\* failed read of channels[k] rejects it naming device and channels[k] and
\* no request for a later channel is made; when it resolves, the result
\* maps every listed channel to the position read for it.
C14_GetMultiplePositions ==
  \A k \in 1..Len(tasks) :
    LET t == tasks[k]
    IN t.kind = "getMultiplePositions" =>
         /\ Len(t.gets) <= Len(t.channels)
         /\ \A j \in 1..Len(t.gets) :
              LET get == ops[t.gets[j]]
              IN /\ get.kind = "getPosition" /\ get.device = t.device
                 /\ get.channel = t.channels[j]
                 /\ j < Len(t.gets) => get.state = "resolved"
                 /\ get.state = "pending" => t.state = "pending"
                 /\ get.state = "rejected" =>
                      /\ j = Len(t.gets)
                      /\ t.state = "rejected" /\ t.error = "getfailed"
                      /\ t.info = [NoInfo EXCEPT !.device = t.device,
                                                 !.channel = t.channels[j],
                                                 !.cause = get.error]
         /\ Cardinality({j \in 1..Len(t.gets) :
                           ops[t.gets[j]].state = "pending"}) <= 1
         /\ t.state = "resolved" <=>
              (/\ Len(t.gets) = Len(t.channels)
               /\ \A j \in 1..Len(t.gets) :
                    ops[t.gets[j]].state = "resolved")
         /\ t.state = "resolved" =>
              \A j \in 1..Len(t.channels) :
                Lookup(t.result, t.channels[j]) = ops[t.gets[j]].value

C14_Witness ==
  \E k \in 1..Len(tasks) :
    /\ tasks[k].kind = "getMultiplePositions"
    /\ tasks[k].channels = <<0, 1, 2>>
    /\ tasks[k].state = "rejected"
    /\ tasks[k].info.channel = 1
    /\ Len(tasks[k].gets) = 2
    /\ Len(ops) = 2

\* C15: handling a transport event (open, close, error) only re-emits it:
\* the step leaves requestQueue, responseHandlers, responseBuffer, the armed
\* timeouts and the writes in flight unchanged and settles no operation; and
\* in any step an operation that was pending becomes rejected only by its
\* own response timeout or by the failure of its own write.
C15_EventsOnlyReemitted ==
  [][/\ (emitted' # emitted \/ isOpen' # isOpen) =>
          /\ emitted' \in {"open", "close", "error"}
          /\ UNCHANGED <<requestQueue, responseHandlers, responseBuffer,
                         timers, writes, ops, tasks>>
     /\ \A op \in 1..Len(ops) :
          (ops[op].state = "pending" /\ ops'[op].state = "rejected") =>
            \/ /\ ops'[op].error = "timeout"
               /\ \E h \in timers : h.id = op /\ h \notin timers'
            \/ /\ ops'[op].error = "write"
               /\ writes # <<>>
               /\ writes[1].callback.op = op]_vars

C15_Witness ==
  /\ ~isOpen
  /\ emitted = "close"
  /\ responseHandlers # <<>>
  /\ timers # {}
  /\ \E op \in 1..Len(ops) : ops[op].state = "pending"

\* the number of shifts that removed the request of operation op
ShiftsOf(op) ==
  Cardinality({i \in 1..Len(shifted) : shifted[i].removed = op})

\* the number of places the request of operation op has in requestQueue
InQueue(op) ==
  Cardinality({i \in 1..Len(requestQueue) :
                 requestQueue[i].callback.op = op})

WriteInFlight(op) == \E i \in 1..Len(writes) : writes[i].callback.op = op

\* C16: responseHandlers never holds more than one handler, and a handler
\* in it belongs to the request at the head of requestQueue, whose write
\* has succeeded and whose operation is not completed yet.
C16_OneHandlerOfHead ==
  /\ Len(responseHandlers) <= 1
  /\ responseHandlers # <<>> =>
       LET op == responseHandlers[1].id
       IN /\ requestQueue # <<>>
          /\ requestQueue[1].callback.op = op
          /\ requestQueue[1].callback.kind = "response"
          /\ WrittenAt(op) > 0
          /\ writes = <<>>
          /\ ops[op].state = "pending"
          /\ ShiftsOf(op) = 0

C16_Witness ==
  /\ Len(responseHandlers) = 1
  /\ Len(requestQueue) = 2
  /\ \E op \in 1..Len(ops) : TimedOut(ops[op])

\* C17: a request accepted into requestQueue is in it once until it is
\* removed, is removed once, by the failure of its own write or by its own
\* continuation, and every shift removes the request it was called for; a
\* request without response is removed as soon as its write succeeds and
\* only getPosition ever has a response handler.
C17_RemovedOnceByOwner ==
  /\ \A i \in 1..Len(shifted) : shifted[i].removed = shifted[i].by
  /\ \A op \in 1..Len(ops) :
       IF \E e \in 1..Len(enqueued) : enqueued[e].callback.op = op
       THEN /\ InQueue(op) + ShiftsOf(op) = 1
            /\ ShiftsOf(op) = 1 <=> ops[op].state # "pending"
            /\ (ops[op].kind # "getPosition" /\ WrittenAt(op) > 0
                  /\ ~WriteInFlight(op)) => ShiftsOf(op) = 1
            /\ (ops[op].state = "rejected" /\ ops[op].error = "write")
                  => InQueue(op) = 0
       ELSE InQueue(op) = 0 /\ ShiftsOf(op) = 0
  /\ \A i \in 1..Len(responseHandlers) :
       ops[responseHandlers[i].id].kind = "getPosition"
  /\ \A h \in timers : ops[h.id].kind = "getPosition"
  /\ \A i \in 1..Len(delivered) :
       ops[delivered[i].id].kind = "getPosition"

C17_Witness ==
  /\ Len(shifted) = 3
  /\ \E i, j \in 1..Len(ops) :
       /\ ops[i].kind = "setTarget" /\ ops[i].state = "resolved"
       /\ ops[j].state = "rejected" /\ ops[j].error = "write"

\* C18: whenever responseHandlers is empty, responseBuffer is empty.
C18_BufferEmptyWithoutHandler ==
  responseHandlers = <<>> => responseBuffer = <<>>

\* C19: the callback of a response handler runs once, by a matching
\* response or by its timeout and never by both; a timeout is armed exactly
\* while its handler is in responseHandlers, so that the firing timeout
\* removes its own handler and no other; every promise is settled at most
\* once.
C19_HandlerCalledOnce ==
  /\ [](/\ timers = {responseHandlers[i] : i \in 1..Len(responseHandlers)}
        /\ \A i, j \in 1..Len(delivered) :
             delivered[i].id = delivered[j].id => i = j
        /\ \A op \in 1..Len(ops) :
             /\ ops[op].settles = IF ops[op].state = "pending" THEN 0 ELSE 1
             /\ Awaiting(op) => ops[op].state = "pending"
             /\ (\E i \in 1..Len(delivered) : delivered[i].id = op)
                  <=> (ops[op].kind = "getPosition"
                       /\ ops[op].state = "resolved"))
  /\ [][\A h \in timers :
          (h \notin timers' /\ TimedOut(ops'[h.id])) =>
            /\ IndexOf(responseHandlers, h.id) >= 0
            /\ responseHandlers' =
                 Splice1(responseHandlers, IndexOf(responseHandlers, h.id))
            /\ ~TimedOut(ops[h.id])
            /\ \A op \in 1..Len(ops) :
                 op # h.id => ops'[op] = ops[op]]_vars

C19_Witness ==
  /\ \E op \in 1..Len(ops) : TimedOut(ops[op]) /\ ops[op].settles = 1
  /\ \E i \in 1..Len(delivered) :
       /\ ops[delivered[i].id].settles = 1
       /\ \E op \in 1..(delivered[i].id - 1) : TimedOut(ops[op])
  /\ timers # {}

\* C20: every byte of the response frame given to a getPosition request was
\* sent by the device in reply to that request.
C20_ReplyBelongsToRequest ==
  \A i \in 1..Len(delivered) :
    \A j \in 1..delivered[i].responseLength :
      pushedFor[delivered[i].at + j] = delivered[i].id

====
